---- MODULE Spec2Model ----
(***************************************************************************)
(* Model of the DataFlux ingestion-and-analysis pipeline:                  *)
(*   - the ingestion service (services/ingestion-service/src/main.py):     *)
(*     upload_asset, get_processing_status, trigger_reanalysis,            *)
(*     update_asset_status;                                                *)
(*   - the analysis dispatcher (services/analysis-service/src/main.py):    *)
(*     AnalysisService._process_messages / _process_asset;                 *)
(*   - the analyzers (services/analysis-service/analyzers): analyze().     *)
(* Handlers of concurrent requests and of several dispatcher processes     *)
(* interleave at their awaits. Consecutive awaits are one step where the   *)
(* order of the step with the steps of other handlers cannot be observed:  *)
(* reads of rows and objects that are never removed, and a publish, which  *)
(* only enables the consumers, directly after the write that precedes it.  *)
(***************************************************************************)
EXTENDS Integers, FiniteSets, Sequences, TLC

\* ---------------------------------------------------------------- bounds
NumUploads == 2        \* upload_asset calls; call u generates asset id u
NumHashes == 1         \* distinct byte contents that are uploaded
NumWorkers == 2        \* AnalysisService processes in the consumer group
NumReanalyses == 1     \* trigger_reanalysis calls
MaxStatusUpdates == 1  \* update_asset_status calls
MaxRedeliver == 1      \* redeliveries of a work message (at-least-once)
NumProbes == 3         \* sub-probes an analyzer runs with asyncio.gather
NumStatusCalls == 2    \* update_asset_status calls to main_simple.py
NumKeys == 2           \* cache keys given to CacheManager
MaxSize == 1           \* CacheConfig.max_size of the CacheManager under test
DefaultTtl == 2        \* CacheConfig.default_ttl of the CacheManager, in ticks
MaxTtl == 1            \* largest ttl argument of CacheManager.set, in ticks
MaxTime == 3           \* ticks of the clock

\* ------------------------------------------------------ program constants
MinPriority == 1       \* AssetUpload.priority: ge=1
MaxPriority == 10      \* AssetUpload.priority: le=10
DefaultPriority == 5   \* AssetUpload.priority: default

Uploads == 1..NumUploads
AssetIds == Uploads
Hashes == 1..NumHashes
Workers == 1..NumWorkers
Reanalyses == 1..NumReanalyses
StatusCalls == 1..NumStatusCalls
Keys == 1..NumKeys
\* the ttl argument of set: 0 stands for None (and for 0, which `ttl or
\* default_ttl` treats alike)
Ttls == 0..MaxTtl
\* CacheStrategy
Strategies == {"write_through", "write_back", "write_around", "read_through",
               "cache_aside"}
Probes == 1..NumProbes

\* ------------------------------------------------------------ value sets
Statuses == {"queued", "processing", "completed", "failed"}
\* values of assets.error_message: SQL NULL or a message text
NULL == "NULL"
NoRow == [status |-> "absent"]
NoEntry == "none"
\* request bodies of PUT /assets/{id}/status: a status, or no status
StatusInputs == Statuses \cup {""}
\* values of the request parameter priority: an integer, or text that is
\* not an integer
PriorityInputs ==
    {[int |-> TRUE, val |-> v] :
        v \in {MinPriority - 1, MinPriority, DefaultPriority, MaxPriority, MaxPriority + 1}}
       \cup {[int |-> FALSE, val |-> 0]}
NoPriority == [int |-> TRUE, val |-> DefaultPriority]
\* what one sub-probe of an analyzer does: returns its dict or raises
ProbeOutcomes == [Probes -> {"ok", "raise"}]
AllProbesOk == [p \in Probes |-> "ok"]
NotRun == [p \in Probes |-> "skipped"]
\* one analyze() call: the file passes validate_file and the sub-probes run,
\* or validate_file rejects it, or the body raises before the sub-probes
AnalyzerRuns ==
    {[file |-> "ok", probes |-> p] : p \in ProbeOutcomes}
       \cup {[file |-> f, probes |-> NotRun] : f \in {"invalid", "error"}}
\* the runs of the pipeline specifications: every sub-probe returns, or the
\* file is rejected
PlainRuns == {r \in AnalyzerRuns : r.probes = AllProbesOk \/ r.file = "invalid"}
NoRun == [file |-> "none", probes |-> NotRun]
NoResult == [parts |-> {}, metadata |-> [status |-> "none"]]
\* the texts of str(e) that _process_asset writes to error_message
DownloadError == "download failed"
StoreError == "store failed"
NoAnalyzerError == "No analyzer"
\* the mime_type field of a work message: a string (its characters), or
\* None when the message has no such field (message.get('mime_type'))
MimeStr(chars) == [str |-> TRUE, chars |-> chars]
NoMime == [str |-> FALSE, chars |-> <<>>]
VideoPrefix == <<"v", "i", "d", "e", "o", "/">>
ImagePrefix == <<"i", "m", "a", "g", "e", "/">>
AudioPrefix == <<"a", "u", "d", "i", "o", "/">>
PdfPrefix == <<"a", "p", "p", "l", "i", "c", "a", "t", "i", "o", "n", "/", "p", "d", "f">>
TextPrefix == <<"t", "e", "x", "t", "/">>
\* what detect_mime_type gives for a .png upload
ImagePng == MimeStr(ImagePrefix \o <<"p", "n", "g">>)
\* the messages published by the gateway carry the mime type of the row,
\* always a string of detect_mime_type's table
PlainMimes == {ImagePng}
\* messages of any producer
MimeInputs ==
    {ImagePng,
     MimeStr(VideoPrefix \o <<"m", "p", "4">>),
     MimeStr(AudioPrefix \o <<"w", "a", "v">>),
     MimeStr(PdfPrefix),
     MimeStr(TextPrefix \o <<"x">>),
     MimeStr(<<"a", "p", "p", "l", "i", "c", "a", "t", "i", "o", "n", "/", "z", "i", "p">>),
     MimeStr(<<"v", "i", "d", "e", "o">>),
     MimeStr(<<"V", "I", "D", "E", "O", "/", "x">>),
     MimeStr(<<>>),
     NoMime}
\* self.analyzers as _init_analyzers fills it
Analyzers == {"video", "image", "audio", "document"}

VARIABLES
    upl,        \* upload_asset calls: position, content hash, response; seq records
                \* that the call began after a call with the same bytes had returned
    blobs,      \* MinIO bucket dataflux-assets: objects, by asset id
    entities,   \* table entities: ids
    assets,     \* table assets: row per id (or NoRow)
    queue,      \* Kafka topic asset-processing: pending messages per asset
    cache,      \* Redis keys asset:{id}: cached status (or NoEntry)
    wrk,        \* dispatcher processes: position in _process_asset, the analyzer
                \* call made for the message in hand and what it returned
    results,    \* committed rows of segments, features, embeddings per asset
    rea,        \* trigger_reanalysis calls
    statusResp, \* the last response of get_processing_status
    api,        \* the polling processor APIAssetProcessor: position in
                \* simulate_processing, the asset in hand, what was stored
    putResp,    \* the last response of update_asset_status of main.py
    stat,       \* update_asset_status calls of main_simple.py: position,
                \* asset and status of the request
    cm,         \* a CacheManager: memory_cache (in dict order), the Redis keys,
                \* the clock, a get that awaits Redis, the last result of get
                \* with the time of the call,
                \* and per key when the ttl of its latest set runs out
    counters    \* calls made so far: status updates, redeliveries

vars == <<upl, blobs, entities, assets, queue, cache, wrk, results, rea,
          statusResp, counters, api, putResp, stat, cm>>

IdleStatusCall == [pc |-> "idle", asset |-> 0, status |-> "none"]

\* CacheManager.__init__: an empty memory_cache; Redis holds no key
NoValue == "None"
NoKey == [present |-> FALSE, expires_at |-> 0]
NoGet == [key |-> 0, value |-> NoValue, at |-> 0]
NoPending == [key |-> 0, at |-> 0]
NewCacheManager ==
    [now |-> 0, memory_cache |-> <<>>, redis |-> [k \in Keys |-> NoKey],
     pending |-> NoPending, result |-> NoGet, set_expires |-> [k \in Keys |-> 0]]

IdleApi == [pc |-> "idle", asset |-> 0, batch |-> 0, full |-> FALSE]

IdleWorker ==
    [pc |-> "idle", asset |-> 0, err |-> NULL, run |-> NoRun, out |-> NoResult,
     mime |-> NoMime, type |-> "none", tmp |-> FALSE]

\* ------------------------------------------------------------------ Init
Init ==
    /\ upl = [u \in Uploads |-> [pc |-> "idle", hash |-> 0, res |-> "none", ret |-> 0,
                                 seq |-> FALSE, prio |-> NoPriority,
                                 sends |-> 0, thumbs |-> FALSE]]
    /\ blobs = {}
    /\ entities = {}
    /\ assets = [a \in AssetIds |-> NoRow]
    /\ queue = [a \in AssetIds |-> 0]
    /\ cache = [a \in AssetIds |-> NoEntry]
    /\ wrk = [w \in Workers |-> IdleWorker]
    /\ results = [a \in AssetIds |-> 0]
    /\ rea = [r \in Reanalyses |-> [pc |-> "idle", asset |-> 0, force |-> FALSE,
                                    res |-> "none"]]
    /\ statusResp = [asset |-> 0, source |-> "none", status |-> "none",
                    message |-> NULL, valid |-> FALSE]
    /\ counters = [updates |-> 0, redelivered |-> 0]
    /\ api = IdleApi
    /\ putResp = "none"
    /\ stat = [c \in StatusCalls |-> IdleStatusCall]
    /\ cm = NewCacheManager

\* --------------------------------------------------- relational helpers
Exists(a) == assets[a] # NoRow

check_duplicate_mut(h) == 0

\* SELECT id FROM assets WHERE file_hash = $1  (0: no row)
check_duplicate(h) ==
    IF \E a \in AssetIds : Exists(a) /\ assets[a].hash = h
    THEN CHOOSE a \in AssetIds : Exists(a) /\ assets[a].hash = h
    ELSE 0

\* the UNIQUE constraint of assets.file_hash: an INSERT of hash h is rejected
UniqueViolation(h) == \E a \in AssetIds : Exists(a) /\ assets[a].hash = h

\* UPDATE assets SET processing_status = ..., error_message = ... WHERE id = a
\* (no row matches when the asset does not exist)
SetStatus(tbl, a, s, e) ==
    IF tbl[a] # NoRow THEN [tbl EXCEPT ![a].status = s, ![a].error = e] ELSE tbl

\* UPDATE assets SET processing_status = ... WHERE id = a (error_message untouched)
SetStatusOnly(tbl, a, s) ==
    IF tbl[a] # NoRow THEN [tbl EXCEPT ![a].status = s] ELSE tbl

\* ------------------------------------------------ ingestion: upload_asset
\* AssetUpload: priority: int = Field(5, ge=1, le=10)
AssetUploadValid(p) == p.int /\ p.val >= MinPriority /\ p.val <= MaxPriority

\* metadata: AssetUpload = Depends(): a request whose priority fails the
\* validation of the model is answered 422 before the body of upload_asset
\* runs
UploadInvalid(u, p) ==
    /\ upl[u].pc = "idle"
    /\ ~AssetUploadValid(p)
    /\ upl' = [upl EXCEPT ![u].pc = "done", ![u].res = "validation_error", ![u].prio = p]
    /\ UNCHANGED <<blobs, entities, assets, queue, cache, wrk, results, rea,
                   statusResp, counters, api,
                   putResp, stat, cm>>

\* the body of upload_asset, for a request that passed the validation: read
\* the file, hash it, check_duplicate; a hit returns the existing asset with
\* duplicate=True
UploadCheck(u, h, p) ==
    /\ upl[u].pc = "idle"
    /\ AssetUploadValid(p)
    /\ LET existing == check_duplicate(h)
           seq == \E v \in Uploads : /\ upl[v].pc = "done" /\ upl[v].hash = h
                                     /\ upl[v].res \in {"created", "duplicate"}
       IN IF existing # 0
          THEN upl' = [upl EXCEPT ![u] = [pc |-> "done", hash |-> h, res |-> "duplicate",
                                          ret |-> existing, seq |-> seq,
                                          prio |-> p, sends |-> 0,
                                          thumbs |-> FALSE]]
          ELSE upl' = [upl EXCEPT ![u] = [pc |-> "store", hash |-> h, res |-> "none",
                                          ret |-> 0, seq |-> seq, prio |-> p,
                                          sends |-> 0, thumbs |-> FALSE]]
    /\ UNCHANGED <<blobs, entities, assets, queue, cache, wrk, results, rea,
                   statusResp, counters, api,
                   putResp, stat, cm>>

store_file_in_minio_lost(objects, u, fileOk) ==
    [raised |-> FALSE, objects |-> objects]

store_file_in_minio_mut(objects, u, fileOk) ==
    [raised |-> FALSE, objects |-> IF fileOk THEN objects \cup {u} ELSE objects]

\* store_file_in_minio: put_object writes the object, or fails with S3Error,
\* which is raised as HTTP 500
store_file_in_minio(objects, u, fileOk) ==
    IF fileOk
    THEN [raised |-> FALSE, objects |-> objects \cup {u}]
    ELSE [raised |-> TRUE, objects |-> objects]

publish_processing_message_mut(topic, a) == [topic EXCEPT ![a] = @ + 2]

publish_processing_message_drop(topic, a) == topic

\* publish_processing_message: one send_and_wait to the topic asset-processing
publish_processing_message(topic, a) == [topic EXCEPT ![a] = @ + 1]

\* store_file_in_minio (an exception leaves upload_asset), then
\* store_asset_metadata (INSERT INTO entities, INSERT INTO assets, each
\* statement committed on its own; the second is rejected on a hash conflict
\* and the exception leaves upload_asset), then publish_processing_message
\* (send_and_wait, or a Kafka error -> HTTP 500)
UploadStore(u, fileOk, publishOk) ==
    /\ upl[u].pc = "store"
    /\ LET put == store_file_in_minio(blobs, u, fileOk)
       IN IF put.raised
          THEN /\ publishOk
               /\ upl' = [upl EXCEPT ![u].pc = "done", ![u].res = "storage_error"]
               /\ UNCHANGED <<blobs, entities, assets, queue>>
          ELSE /\ blobs' = put.objects
               /\ entities' = entities \cup {u}
               /\ IF UniqueViolation(upl[u].hash)
                  THEN /\ publishOk
                       /\ upl' = [upl EXCEPT ![u].pc = "done",
                                             ![u].res = "unique_violation"]
                       /\ UNCHANGED <<assets, queue>>
                  ELSE /\ assets' = [assets EXCEPT ![u] = [status |-> "queued",
                                                            hash |-> upl[u].hash,
                                                            error |-> NULL,
                                                            priority |-> upl[u].prio.val]]
                       /\ IF publishOk
                          THEN /\ queue' = publish_processing_message(queue, u)
                               /\ upl' = [upl EXCEPT ![u].pc = "cache",
                                                     ![u].sends = @ + 1]
                          ELSE /\ queue' = queue
                               /\ upl' = [upl EXCEPT ![u].pc = "done",
                                                     ![u].res = "queue_error",
                                                     ![u].sends = @ + 1]
    /\ UNCHANGED <<cache, wrk, results, rea, statusResp, counters, api,
                   putResp, stat, cm>>

\* cache_asset_status(asset_id, "queued"), then the response duplicate=False
UploadCache(u) ==
    /\ upl[u].pc = "cache"
    /\ cache' = [cache EXCEPT ![u] = "queued"]
    /\ upl' = [upl EXCEPT ![u].pc = "done", ![u].res = "created", ![u].ret = u]
    /\ UNCHANGED <<blobs, entities, assets, queue, wrk, results, rea,
                   statusResp, counters, api,
                   putResp, stat, cm>>

\* ------------------------------------------------- analyzers: analyze()
\* BaseAnalyzer.create_error_result: empty lists, metadata with the error
create_error_result(error) ==
    [parts |-> {},
     metadata |-> [error |-> error, analyzer |-> "analyzer", status |-> "failed"]]

\* BaseAnalyzer.create_success_result: {**metadata, analyzer, status}
create_success_result(parts, metadata) ==
    [parts |-> parts,
     metadata |-> [analyzer |-> "analyzer", status |-> "success"] @@ metadata]

analyze_mut(run) ==
    IF run.file = "invalid" THEN create_error_result("Invalid file")
    ELSE IF run.file = "error" \/ \E p \in Probes : run.probes[p] = "raise"
         THEN create_error_result("exception")
         ELSE create_success_result(Probes,
                  [analysis_tasks |-> NumProbes, successful_tasks |-> NumProbes])

\* VideoAnalyzer / AudioAnalyzer / DocumentAnalyzer.analyze: an invalid file
\* and any exception in the body give an error result (nothing is raised);
\* otherwise the sub-probes run under gather(return_exceptions=True), the
\* segments, features and embeddings of every sub-probe that returned a dict
\* are extended into the result (parts: the sub-probes that contributed; each
\* stands for one row to insert) and the raised exceptions are only logged.
analyze(run) ==
    IF run.file = "invalid" THEN create_error_result("Invalid file")
    ELSE IF run.file = "error" THEN create_error_result("exception")
    ELSE LET returned == {p \in Probes : run.probes[p] = "ok"}
         IN create_success_result(returned,
                [analysis_tasks |-> NumProbes,
                 successful_tasks |-> Cardinality(returned)])

\* ---------------------------------- dispatcher: AnalysisService._process_asset
store_analysis_results_replace(rows, batch, failAt) ==
    IF failAt = 0
    THEN [ok |-> TRUE, rows |-> batch]
    ELSE [ok |-> FALSE, rows |-> rows]

store_analysis_results_swallow(rows, batch, failAt) ==
    [ok |-> TRUE, rows |-> IF failAt = 0 THEN rows + batch ELSE rows]

store_analysis_results_mut(rows, batch, failAt) ==
    IF failAt = 0
    THEN [ok |-> TRUE, rows |-> rows + batch]
    ELSE [ok |-> FALSE, rows |-> rows + (IF failAt > batch THEN batch ELSE failAt - 1)]

\* _store_analysis_results: the INSERTs of one batch run inside one
\* conn.transaction(); failAt = 0: all succeed and the transaction commits;
\* failAt = k: the k-th INSERT (or, for k = batch + 1, the COMMIT) raises and
\* the transaction is rolled back. Every call inserts its rows under fresh
\* uuid4 ids.
store_analysis_results(rows, batch, failAt) ==
    IF failAt = 0
    THEN [ok |-> TRUE, rows |-> rows + batch]
    ELSE [ok |-> FALSE, rows |-> rows]

\* str.startswith
startswith(s, prefix) ==
    Len(s) >= Len(prefix) /\ SubSeq(s, 1, Len(prefix)) = prefix

get_analyzer_type_mut(mime) ==
    IF ~mime.str THEN [raised |-> TRUE, type |-> "none"]
    ELSE [raised |-> FALSE,
          type |-> IF startswith(mime.chars, VideoPrefix) THEN "video"
                   ELSE IF startswith(mime.chars, ImagePrefix) THEN "image"
                   ELSE IF startswith(mime.chars, AudioPrefix) THEN "audio"
                   ELSE IF startswith(mime.chars, PdfPrefix)
                           \/ startswith(mime.chars, TextPrefix) THEN "document"
                   ELSE "unknown"]

\* _get_analyzer_type: mime_type.startswith(...) raises AttributeError when
\* mime_type is None; otherwise the first matching prefix decides and
\* everything else is a document
get_analyzer_type(mime) ==
    IF ~mime.str THEN [raised |-> TRUE, type |-> "none"]
    ELSE [raised |-> FALSE,
          type |-> IF startswith(mime.chars, VideoPrefix) THEN "video"
                   ELSE IF startswith(mime.chars, ImagePrefix) THEN "image"
                   ELSE IF startswith(mime.chars, AudioPrefix) THEN "audio"
                   ELSE IF startswith(mime.chars, PdfPrefix)
                           \/ startswith(mime.chars, TextPrefix) THEN "document"
                   ELSE "document"]

remove_temp_file_mut(exists) == exists

\* finally: if os.path.exists(file_path): os.remove(file_path)
remove_temp_file(exists) == FALSE

\* A dispatcher process receives a message of asset a (auto-commit consumer)
\* and runs _process_asset up to the call of the analyzer: the status is set
\* to processing; _get_analyzer_type resolves the analyzer, and when it
\* raises, the except-handler of _process_asset raises in turn
\* (analyzer_type is not bound) and the exception leaves _process_asset;
\* then _get_asset_data and _download_file, which writes the temporary file
\* /tmp/dataflux-analysis/{id}_{filename}. The broker delivers at least
\* once: the message may stay pending and be delivered again.
WorkerBegin(w, a, redeliver, downloadOk, mime) ==
    /\ wrk[w].pc = "idle"
    /\ queue[a] > 0
    /\ IF redeliver
       THEN /\ counters.redelivered < MaxRedeliver
            /\ counters' = [counters EXCEPT !.redelivered = @ + 1]
            /\ queue' = queue
       ELSE /\ counters' = counters
            /\ queue' = [queue EXCEPT ![a] = @ - 1]
    /\ assets' = SetStatus(assets, a, "processing", NULL)
    /\ LET t == get_analyzer_type(mime)
           begun == [IdleWorker EXCEPT !.asset = a, !.mime = mime, !.type = t.type]
       IN IF t.raised
          THEN /\ downloadOk
               /\ wrk' = [wrk EXCEPT ![w] = [begun EXCEPT !.pc = "raised"]]
          ELSE IF t.type \notin Analyzers
          THEN /\ downloadOk
               /\ wrk' = [wrk EXCEPT ![w] = [begun EXCEPT !.pc = "fail",
                                                          !.err = NoAnalyzerError]]
          ELSE IF ~(Exists(a) /\ a \in entities)
          THEN /\ downloadOk
               /\ wrk' = [wrk EXCEPT ![w] = [begun EXCEPT !.pc = "fail",
                                                          !.err = "Asset not found"]]
          ELSE IF downloadOk /\ a \in blobs
               THEN wrk' = [wrk EXCEPT ![w] = [begun EXCEPT !.pc = "analyzing",
                                                           !.tmp = TRUE]]
               ELSE wrk' = [wrk EXCEPT ![w] = [begun EXCEPT !.pc = "fail",
                                                           !.err = DownloadError]]
    /\ UNCHANGED <<upl, blobs, entities, cache, results, rea, statusResp, api,
                   putResp, stat, cm>>

\* the exception that left _process_asset is caught and logged by
\* _process_messages, whose `async for` goes on to the next message
WorkerEscape(w) ==
    /\ wrk[w].pc = "raised"
    /\ wrk' = [wrk EXCEPT ![w] = [IdleWorker EXCEPT !.tmp = wrk[w].tmp]]
    /\ UNCHANGED <<upl, blobs, entities, assets, queue, cache, results, rea,
                   statusResp, counters, api,
                   putResp, stat, cm>>

\* `results = await analyzer.analyze(file_path, asset_data)` returns (there
\* is no deadline on the await), then _store_analysis_results(asset_id,
\* results) commits the batch or raises; whatever the analyzer returned is
\* stored, an error result included
WorkerAnalyze(w, run, failAt) ==
    /\ wrk[w].pc = "analyzing"
    /\ LET a == wrk[w].asset
           out == analyze(run)
           batch == Cardinality(out.parts)
           stored == store_analysis_results(results[a], batch, failAt)
       IN /\ failAt \in 0..(batch + 1)
          /\ results' = [results EXCEPT ![a] = stored.rows]
          /\ wrk' = [wrk EXCEPT ![w].pc = IF stored.ok THEN "complete" ELSE "fail",
                                ![w].err = IF stored.ok THEN NULL ELSE StoreError,
                                ![w].run = run,
                                ![w].out = out,
                                ![w].tmp = IF stored.ok THEN @
                                           ELSE remove_temp_file(@)]
    /\ UNCHANGED <<upl, blobs, entities, assets, queue, cache, rea,
                   statusResp, counters, api,
                   putResp, stat, cm>>

\* _update_processing_status(asset_id, 'completed'), then the finally block
\* removes the temporary file; _process_messages goes on to the next message
WorkerComplete(w) ==
    /\ wrk[w].pc = "complete"
    /\ assets' = SetStatus(assets, wrk[w].asset, "completed", NULL)
    /\ wrk' = [wrk EXCEPT ![w] = [IdleWorker EXCEPT
                                     !.tmp = remove_temp_file(wrk[w].tmp)]]
    /\ UNCHANGED <<upl, blobs, entities, queue, cache, results, rea,
                   statusResp, counters, api,
                   putResp, stat, cm>>

WorkerFail_mut(w) ==
    /\ wrk[w].pc = "fail"
    /\ assets' = SetStatus(assets, wrk[w].asset, "failed", wrk[w].err)
    /\ wrk' = [wrk EXCEPT ![w].pc = "stopped"]
    /\ UNCHANGED <<upl, blobs, entities, queue, cache, results, rea,
                   statusResp, counters, api,
                   putResp, stat, cm>>

\* `except Exception` of _process_asset: _update_processing_status(asset_id,
\* 'failed', error=str(e)); nothing is raised to _process_messages, whose
\* `async for` goes on to the next message
WorkerFail(w) ==
    /\ wrk[w].pc = "fail"
    /\ assets' = SetStatus(assets, wrk[w].asset, "failed", wrk[w].err)
    /\ wrk' = [wrk EXCEPT ![w] = [IdleWorker EXCEPT !.tmp = wrk[w].tmp]]
    /\ UNCHANGED <<upl, blobs, entities, queue, cache, results, rea,
                   statusResp, counters, api,
                   putResp, stat, cm>>

\* ------------------------------------------ ingestion: trigger_reanalysis
ReanalysisRejected_mut(status, force) == status = "processing"

\* if not force and asset['processing_status'] == 'processing': 409
ReanalysisRejected(status, force) == ~force /\ status = "processing"

\* SELECT the asset; 404 if absent, 409 if processing and not forced
ReanalyzeRead(r, a, force) ==
    /\ rea[r].pc = "idle"
    /\ LET res == IF ~Exists(a) THEN "not_found"
                  ELSE IF ReanalysisRejected(assets[a].status, force) THEN "conflict"
                  ELSE "none"
       IN rea' = [rea EXCEPT ![r] = [pc |-> IF res = "none" THEN "update" ELSE "done",
                                     asset |-> a, force |-> force, res |-> res]]
    /\ UNCHANGED <<upl, blobs, entities, assets, queue, cache, wrk, results,
                   statusResp, counters, api,
                   putResp, stat, cm>>

\* UPDATE assets SET processing_status = 'queued', processing_priority = $1
\* WHERE id = a
SetQueued(tbl, a, priority) ==
    IF tbl[a] # NoRow THEN [tbl EXCEPT ![a].status = "queued", ![a].priority = priority]
    ELSE tbl

\* the query parameter `priority: int = 5` of trigger_reanalysis: any
\* integer (a value that is no integer is answered 422 before the handler)
ReanalysisPriorities == {q \in PriorityInputs : q.int}

\* the UPDATE to queued with the priority of the request, then
\* publish_processing_message and the response "Re-analysis triggered"
ReanalyzeUpdate(r, publishOk, p) ==
    /\ rea[r].pc = "update"
    /\ assets' = SetQueued(assets, rea[r].asset, p.val)
    /\ IF publishOk
       THEN /\ queue' = publish_processing_message(queue, rea[r].asset)
            /\ rea' = [rea EXCEPT ![r].pc = "done", ![r].res = "ok"]
       ELSE /\ queue' = queue
            /\ rea' = [rea EXCEPT ![r].pc = "done", ![r].res = "queue_error"]
    /\ UNCHANGED <<upl, blobs, entities, cache, wrk, results, statusResp, counters, api,
                   putResp, stat, cm>>

\* ----------------------------- ingestion, main_simple.py: upload_asset
\* priority: int = Form(5): only a value that is no integer is rejected
FormPriorityValid(p) == p.int

\* INSERT INTO entities ... RETURNING id (committed on its own), then the
\* file is written to /tmp/dataflux_storage/{entity_id}_{filename} and
\* hashed; when open() or write() raises (a file name that names a missing
\* directory, a full disk), `except Exception` answers HTTP 500 and nothing
\* is undone. For an image, generate_multiple_thumbnails (or the fallback
\* generate_thumbnail) writes thumbnail files named after the entity id to
\* /tmp/dataflux_thumbnails.
SimpleUploadStore(u, h, p, fileOk, image) ==
    /\ upl[u].pc = "idle"
    /\ IF ~FormPriorityValid(p)
       THEN /\ fileOk /\ ~image
            /\ upl' = [upl EXCEPT ![u].pc = "done", ![u].res = "validation_error",
                                  ![u].prio = p]
            /\ UNCHANGED <<blobs, entities>>
       ELSE IF ~fileOk
       THEN /\ ~image
            /\ entities' = entities \cup {u}
            /\ blobs' = blobs
            /\ upl' = [upl EXCEPT ![u].pc = "done", ![u].res = "storage_error",
                                  ![u].hash = h, ![u].prio = p]
       ELSE /\ entities' = entities \cup {u}
            /\ blobs' = blobs \cup {u}
            /\ upl' = [upl EXCEPT ![u].pc = "simple", ![u].hash = h, ![u].prio = p,
                                  ![u].thumbs = image]
    /\ UNCHANGED <<assets, queue, cache, wrk, results, rea, statusResp, counters, api,
                   putResp, stat, cm>>

\* SELECT ... WHERE file_hash = $1: a hit deletes the entity row and the
\* file (DELETE FROM entities, os.remove(storage_path): the thumbnail files
\* are not touched) and returns the existing asset; otherwise INSERT INTO assets with
\* the priority as given (a hash conflict raises and ends in HTTP 500) and
\* redis.setex(asset:{id}, 3600, ...). No work message is published.
SimpleUploadFinish(u) ==
    /\ upl[u].pc = "simple"
    /\ LET existing == check_duplicate(upl[u].hash)
       IN IF existing # 0
          THEN /\ entities' = entities \ {u}
               /\ blobs' = blobs \ {u}
               /\ upl' = [upl EXCEPT ![u].pc = "done", ![u].res = "duplicate",
                                     ![u].ret = existing]
               /\ UNCHANGED <<assets, cache>>
          ELSE /\ assets' = [assets EXCEPT ![u] = [status |-> "queued",
                                                   hash |-> upl[u].hash,
                                                   error |-> NULL,
                                                   priority |-> upl[u].prio.val]]
               /\ cache' = [cache EXCEPT ![u] = "queued"]
               /\ upl' = [upl EXCEPT ![u].pc = "done", ![u].res = "created",
                                     ![u].ret = u]
               /\ UNCHANGED <<entities, blobs>>
    /\ UNCHANGED <<queue, wrk, results, rea, statusResp, counters, api,
                   putResp, stat, cm>>

\* -------------------------- analysis, api_processor.py: APIAssetProcessor
\* the media types of the assets that the processor is given
ApiMimes == {ImagePng, MimeStr(VideoPrefix \o <<"m", "p", "4">>)}

\* _generate_fallback_results: one feature, no segments, no embeddings
generate_fallback_results ==
    [parts |-> {1}, metadata |-> [status |-> "fallback", analyzer |-> "fallback"]]

\* APIAssetProcessor._store_analysis_results: the INSERTs run one by one on
\* a connection without a transaction; failAt = 0: all succeed; failAt = k:
\* the k-th INSERT raises (for an empty batch: the connection fails), the
\* rows inserted before it stay, and `except Exception` only logs
api_store_analysis_results(rows, batch, failAt) ==
    IF failAt = 0
    THEN [full |-> TRUE, rows |-> rows + batch]
    ELSE [full |-> FALSE, rows |-> rows + (IF failAt > batch THEN batch ELSE failAt - 1)]

\* process_all_assets takes an asset that GET /api/v1/assets lists as queued
\* and simulate_processing puts it to processing through PUT
\* /assets/{id}/status of main_simple.py (UPDATE of the row, setex of the
\* cache entry)
ApiBegin(a) ==
    /\ api.pc = "idle"
    /\ Exists(a) /\ assets[a].status = "queued"
    /\ assets' = SetStatusOnly(assets, a, "processing")
    /\ cache' = [cache EXCEPT ![a] = "processing"]
    /\ api' = [IdleApi EXCEPT !.pc = "generate", !.asset = a]
    /\ UNCHANGED <<upl, blobs, entities, queue, wrk, results, rea, statusResp, counters,
                   putResp, stat, cm>>

\* generate_analysis_results: _download_asset_file returns None on any
\* failure and the fallback result is returned without being stored;
\* otherwise an image goes to ImageAnalyzer.analyze, every other type gets
\* the fallback result, and _store_analysis_results is called, which never
\* raises
ApiGenerate(downloadOk, mime, run, failAt) ==
    /\ api.pc = "generate"
    /\ LET a == api.asset
           out == IF get_analyzer_type(mime).type = "image" THEN analyze(run)
                  ELSE generate_fallback_results
           batch == Cardinality(out.parts)
           stored == api_store_analysis_results(results[a], batch, failAt)
       IN IF ~downloadOk
          THEN /\ failAt = 0
               /\ results' = results
               /\ api' = [api EXCEPT !.pc = "complete", !.batch = batch, !.full = FALSE]
          ELSE /\ failAt \in 0..batch \/ failAt = 1
               /\ results' = [results EXCEPT ![a] = stored.rows]
               /\ api' = [api EXCEPT !.pc = "complete", !.batch = batch,
                                     !.full = stored.full]
    /\ UNCHANGED <<upl, blobs, entities, assets, queue, cache, wrk, rea, statusResp,
                   counters,
                   putResp, stat, cm>>

\* simulate_processing: self.update_asset_status(asset_id, 'completed'),
\* whatever generate_analysis_results did
ApiComplete ==
    /\ api.pc = "complete"
    /\ assets' = SetStatusOnly(assets, api.asset, "completed")
    /\ cache' = [cache EXCEPT ![api.asset] = "completed"]
    /\ api' = [api EXCEPT !.pc = "idle"]
    /\ UNCHANGED <<upl, blobs, entities, queue, wrk, results, rea, statusResp, counters,
                   putResp, stat, cm>>

\* ---------------------------------------- shared: CacheManager (L1 + L2)
\* the position of key k in memory_cache (0: absent)
Position(mc, k) ==
    IF \E i \in 1..Len(mc) : mc[i].key = k
    THEN CHOOSE i \in 1..Len(mc) : mc[i].key = k
    ELSE 0

Without(mc, i) == SubSeq(mc, 1, i - 1) \o SubSeq(mc, i + 1, Len(mc))

\* lambda k: entry.last_accessed or entry.created_at (last_accessed is None
\* until the first hit: -1 here)
LruStamp(e) == IF e.last_accessed # -1 THEN e.last_accessed ELSE e.created_at

evict_lru_mut(mc) == [raised |-> FALSE, mc |-> mc]

\* _evict_lru: when len(memory_cache) >= max_size, the entry with the
\* smallest stamp (the first of them in dict order) is deleted; min() of an
\* empty dict raises ValueError
evict_lru(mc) ==
    IF Len(mc) >= MaxSize
    THEN IF Len(mc) = 0 THEN [raised |-> TRUE, mc |-> mc]
         ELSE LET least == CHOOSE i \in 1..Len(mc) :
                              /\ \A j \in 1..Len(mc) : LruStamp(mc[i]) <= LruStamp(mc[j])
                              /\ \A j \in 1..(i - 1) : LruStamp(mc[j]) > LruStamp(mc[i])
              IN [raised |-> FALSE, mc |-> Without(mc, least)]
    ELSE [raised |-> FALSE, mc |-> mc]

\* self.memory_cache[cache_key] = entry: a key of the dict keeps its place
StoreEntry(mc, e) ==
    IF Position(mc, e.key) # 0 THEN [mc EXCEPT ![Position(mc, e.key)] = e]
    ELSE Append(mc, e)

\* CacheEntry(key, value, created_at=now, expires_at=...)
CacheEntry(k, now, expires_at) ==
    [key |-> k, created_at |-> now, expires_at |-> expires_at, last_accessed |-> -1]

\* _is_expired: datetime.now() > entry.expires_at
is_expired(e, now) == now > e.expires_at

\* a Redis key written by setex is gone when its ttl has run out
RedisHas(k) == cm.redis[k].present /\ cm.now < cm.redis[k].expires_at

\* time passes
CacheTick ==
    /\ cm.now < MaxTime
    /\ cm' = [cm EXCEPT !.now = @ + 1]
    /\ UNCHANGED <<upl, blobs, entities, assets, queue, cache, wrk, results, rea,
                   statusResp, counters, api, putResp, stat>>

\* CacheManager.set: ttl = ttl or default_ttl; _evict_lru() and the entry
\* is stored in memory_cache with expires_at = now + ttl; for the strategies
\* write_through and cache_aside the value is written to Redis with setex
\* (an error of Redis is only logged). Returns True.
CacheSet(k, ttlArg, strategy, redisOk) ==
    /\ LET ttl == IF ttlArg = 0 THEN DefaultTtl ELSE ttlArg
           ev == evict_lru(cm.memory_cache)
           toRedis == redisOk /\ strategy \in {"write_through", "cache_aside"}
       IN /\ ~ev.raised
          /\ cm' = [cm EXCEPT
                      !.memory_cache = StoreEntry(ev.mc, CacheEntry(k, cm.now, cm.now + ttl)),
                      !.redis[k] = IF toRedis
                                   THEN [present |-> TRUE, expires_at |-> cm.now + ttl]
                                   ELSE @,
                      !.set_expires[k] = cm.now + ttl]
    /\ UNCHANGED <<upl, blobs, entities, assets, queue, cache, wrk, results, rea,
                   statusResp, counters, api, putResp, stat>>

\* CacheManager.get up to the answer of Redis: an entry of memory_cache that
\* is not expired is returned (last_accessed = now); an expired one is
\* deleted. Otherwise `await self.redis_client.get(cache_key)`: without a
\* value (or with an error of Redis) the result is None, with a value the
\* call goes on in CacheGetPromote.
CacheGet(k, redisOk) ==
    /\ cm.pending = NoPending
    /\ LET i == Position(cm.memory_cache, k)
       IN IF i # 0 /\ ~is_expired(cm.memory_cache[i], cm.now)
          THEN /\ redisOk
               /\ cm' = [cm EXCEPT !.memory_cache[i].last_accessed = cm.now,
                                   !.result = [key |-> k, value |-> "value", at |-> cm.now]]
          ELSE LET mc == IF i # 0 THEN Without(cm.memory_cache, i) ELSE cm.memory_cache
               IN IF redisOk /\ RedisHas(k)
                  THEN cm' = [cm EXCEPT !.memory_cache = mc,
                                        !.pending = [key |-> k, at |-> cm.now]]
                  ELSE cm' = [cm EXCEPT !.memory_cache = mc,
                                        !.result = [key |-> k, value |-> NoValue,
                                                    at |-> cm.now]]
    /\ UNCHANGED <<upl, blobs, entities, assets, queue, cache, wrk, results, rea,
                   statusResp, counters, api, putResp, stat>>

\* CacheManager.get after Redis has answered with a value: _evict_lru(), the
\* value is stored in memory_cache with expires_at = now + default_ttl and
\* returned; a ValueError of _evict_lru is caught as a Redis error and the
\* result is None. The result is dated with the call, when Redis was read.
CacheGetPromote ==
    /\ cm.pending # NoPending
    /\ LET k == cm.pending.key
           ev == evict_lru(cm.memory_cache)
       IN IF ev.raised
          THEN cm' = [cm EXCEPT !.pending = NoPending,
                                !.result = [key |-> k, value |-> NoValue,
                                            at |-> cm.pending.at]]
          ELSE cm' = [cm EXCEPT
                        !.pending = NoPending,
                        !.memory_cache = StoreEntry(ev.mc, CacheEntry(k, cm.now,
                                                                   cm.now + DefaultTtl)),
                        !.result = [key |-> k, value |-> "value",
                                    at |-> cm.pending.at]]
    /\ UNCHANGED <<upl, blobs, entities, assets, queue, cache, wrk, results, rea,
                   statusResp, counters, api, putResp, stat>>

\* CacheManager.delete: the key is removed from memory_cache and from Redis
\* (an error of Redis is only logged)
CacheDelete(k, redisOk) ==
    /\ LET i == Position(cm.memory_cache, k)
       IN cm' = [cm EXCEPT
                   !.memory_cache = IF i # 0 THEN Without(@, i) ELSE @,
                   !.redis[k] = IF redisOk THEN NoKey ELSE @]
    /\ UNCHANGED <<upl, blobs, entities, assets, queue, cache, wrk, results, rea,
                   statusResp, counters, api, putResp, stat>>

\* ----------------------------------------- ingestion: update_asset_status
\* A body without status raises 400 inside the try; otherwise the UPDATE runs
\* and then `await get_redis()` raises TypeError (get_redis is an async
\* generator), so the cache is never written. Either way `except Exception`
\* turns the outcome into HTTP 500.
\* what update_asset_status answers: HTTPException(400) for a body without
\* status and the TypeError of `await get_redis()` are both caught by
\* `except Exception` and answered 500; the return statement is not reached
update_asset_status_response(s) == "500"

UpdateAssetStatus(a, s) ==
    /\ counters.updates < MaxStatusUpdates
    /\ counters' = [counters EXCEPT !.updates = @ + 1]
    /\ assets' = IF s = "" THEN assets ELSE SetStatusOnly(assets, a, s)
    /\ putResp' = update_asset_status_response(s)
    /\ UNCHANGED <<upl, blobs, entities, queue, cache, wrk, results, rea, statusResp, api, stat, cm>>

\* ------------------------- ingestion, main_simple.py: update_asset_status
\* UPDATE assets SET processing_status = $1 WHERE id = $2 (the body is a
\* StatusUpdate: status is a required string)
SimpleStatusWrite(c, a, st) ==
    /\ stat[c].pc = "idle"
    /\ assets' = SetStatusOnly(assets, a, st)
    /\ stat' = [stat EXCEPT ![c] = [pc |-> "cache", asset |-> a, status |-> st]]
    /\ UNCHANGED <<upl, blobs, entities, queue, cache, wrk, results, rea, statusResp,
                   counters, api, putResp, cm>>

\* redis.setex(asset:{id}, 3600, {id, status}) with the status of the
\* request, then the response 200
SimpleStatusCache(c) ==
    /\ stat[c].pc = "cache"
    /\ cache' = [cache EXCEPT ![stat[c].asset] = stat[c].status]
    /\ stat' = [stat EXCEPT ![c].pc = "done"]
    /\ UNCHANGED <<upl, blobs, entities, assets, queue, wrk, results, rea, statusResp,
                   counters, api, putResp, cm>>

\* --------------------------------------- ingestion: get_processing_status
\* ProcessingStatus declares updated_at without a default: a response built
\* without it fails validation
ProcessingStatusValid(hasUpdatedAt) == hasUpdatedAt

\* message=f"Last updated: {cache_data['updated_at']}" on a cache hit; the
\* response built from the row sets no message (SELECT processing_status only)
LastUpdated == "Last updated"

\* Redis first; on a miss the row is read from Postgres (404 if absent).
\* The cache is not written on a miss.
GetProcessingStatus(a) ==
    /\ statusResp' =
         IF cache[a] # NoEntry
         THEN [asset |-> a, source |-> "cache", status |-> cache[a],
               message |-> LastUpdated, valid |-> ProcessingStatusValid(FALSE)]
         ELSE IF Exists(a)
              THEN [asset |-> a, source |-> "store", status |-> assets[a].status,
                    message |-> NULL, valid |-> ProcessingStatusValid(TRUE)]
              ELSE [asset |-> a, source |-> "store", status |-> "not_found",
                    message |-> NULL, valid |-> FALSE]
    /\ UNCHANGED <<upl, blobs, entities, assets, queue, cache, wrk, results, rea,
                   counters, api,
                   putResp, stat, cm>>

\* the 3600 s TTL of a key set by setex runs out
CacheExpire(a) ==
    /\ cache[a] # NoEntry
    /\ cache' = [cache EXCEPT ![a] = NoEntry]
    /\ UNCHANGED <<upl, blobs, entities, assets, queue, wrk, results, rea,
                   statusResp, counters, api,
                   putResp, stat, cm>>

\* gateway, dispatcher and re-analysis entry point
NextPipeline ==
    \/ \E u \in Uploads, h \in Hashes : UploadCheck(u, h, NoPriority)
    \/ \E u \in Uploads, fileOk \in BOOLEAN, publishOk \in BOOLEAN :
          UploadStore(u, fileOk, publishOk)
    \/ \E u \in Uploads : UploadCache(u)
    \/ \E w \in Workers, a \in AssetIds, rd \in BOOLEAN, ok \in BOOLEAN,
          mime \in PlainMimes : WorkerBegin(w, a, rd, ok, mime)
    \/ \E w \in Workers, run \in PlainRuns, failAt \in {0, 1} :
          WorkerAnalyze(w, run, failAt)
    \/ \E w \in Workers : WorkerComplete(w)
    \/ \E w \in Workers : WorkerFail(w)
    \/ \E r \in Reanalyses, a \in AssetIds, f \in BOOLEAN : ReanalyzeRead(r, a, f)
    \/ \E r \in Reanalyses, ok \in BOOLEAN : ReanalyzeUpdate(r, ok, NoPriority)

\* the pipeline with the status reads and the cache TTL
NextStatus ==
    \/ NextPipeline
    \/ \E a \in AssetIds : GetProcessingStatus(a)
    \/ \E a \in AssetIds : CacheExpire(a)

\* all operations, the status update endpoint included
Next ==
    \/ NextStatus
    \/ \E a \in AssetIds, s \in StatusInputs : UpdateAssetStatus(a, s)

SpecPipeline == Init /\ [][NextPipeline]_vars
SpecStatus == Init /\ [][NextStatus]_vars
Spec == Init /\ [][Next]_vars

\* ------------------------------------------- the upload entry points only
\* upload requests with every value of priority, to main.py and to
\* main_simple.py
NextUploads ==
    \/ \E u \in Uploads, p \in PriorityInputs : UploadInvalid(u, p)
    \/ \E u \in Uploads, h \in Hashes, p \in PriorityInputs : UploadCheck(u, h, p)
    \/ \E u \in Uploads, fileOk \in BOOLEAN, publishOk \in BOOLEAN :
          UploadStore(u, fileOk, publishOk)
    \/ \E u \in Uploads : UploadCache(u)
    \/ \E u \in Uploads, h \in Hashes, p \in PriorityInputs, fileOk \in BOOLEAN,
          image \in BOOLEAN : SimpleUploadStore(u, h, p, fileOk, image)
    \/ \E u \in Uploads : SimpleUploadFinish(u)

SpecUploads == Init /\ [][NextUploads]_vars

\* ------------------------------------------- priorities of stored assets
\* uploads to main.py with every priority, and re-analysis requests with
\* every integer priority
NextPriority ==
    \/ \E u \in Uploads, p \in PriorityInputs : UploadInvalid(u, p)
    \/ \E u \in Uploads, h \in Hashes, p \in PriorityInputs : UploadCheck(u, h, p)
    \/ \E u \in Uploads, fileOk \in BOOLEAN, publishOk \in BOOLEAN :
          UploadStore(u, fileOk, publishOk)
    \/ \E u \in Uploads : UploadCache(u)
    \/ \E r \in Reanalyses, a \in AssetIds, f \in BOOLEAN : ReanalyzeRead(r, a, f)
    \/ \E r \in Reanalyses, ok \in BOOLEAN, p \in ReanalysisPriorities :
          ReanalyzeUpdate(r, ok, p)

SpecPriority == Init /\ [][NextPriority]_vars

\* ------------------------------- main_simple.py with the polling processor
\* uploads to main_simple.py and the processor that polls it
NextApi ==
    \/ \E u \in Uploads, h \in Hashes, p \in PriorityInputs, fileOk \in BOOLEAN,
          image \in BOOLEAN : SimpleUploadStore(u, h, p, fileOk, image)
    \/ \E u \in Uploads : SimpleUploadFinish(u)
    \/ \E a \in AssetIds : ApiBegin(a)
    \/ \E ok \in BOOLEAN, mime \in ApiMimes, run \in PlainRuns, failAt \in 0..NumProbes :
          ApiGenerate(ok, mime, run, failAt)
    \/ ApiComplete

SpecApi == Init /\ [][NextApi]_vars

\* ------------------------------------------------------ the CacheManager
\* any sequence of set, get and delete calls on one CacheManager, with the
\* clock running; a get that awaits Redis may be overtaken by set and delete
NextCache ==
    \/ CacheTick
    \/ \E k \in Keys, ttl \in Ttls, st \in Strategies, ok \in BOOLEAN : CacheSet(k, ttl, st, ok)
    \/ \E k \in Keys, ok \in BOOLEAN : CacheGet(k, ok)
    \/ CacheGetPromote
    \/ \E k \in Keys, ok \in BOOLEAN : CacheDelete(k, ok)

SpecCache == Init /\ [][NextCache]_vars

\* ------------------------------- the status endpoint of main_simple.py
\* concurrent PUT /api/v1/assets/{id}/status requests for stored assets
NextStatusCalls ==
    \/ \E c \in StatusCalls, a \in AssetIds, st \in Statuses : SimpleStatusWrite(c, a, st)
    \/ \E c \in StatusCalls : SimpleStatusCache(c)

\* ------------------------------------------------ the dispatcher on its own
\* The state after NumUploads uploads of different files have returned: a
\* row, a blob and a cache entry per asset, one work message each.
InitDispatch ==
    /\ upl = [u \in Uploads |-> [pc |-> "done", hash |-> u, res |-> "created", ret |-> u,
                                 seq |-> FALSE, prio |-> NoPriority,
                                 sends |-> 0, thumbs |-> FALSE]]
    /\ blobs = AssetIds
    /\ entities = AssetIds
    /\ assets = [a \in AssetIds |-> [status |-> "queued", hash |-> a, error |-> NULL,
                                      priority |-> DefaultPriority]]
    /\ queue = [a \in AssetIds |-> 1]
    /\ cache = [a \in AssetIds |-> "queued"]
    /\ wrk = [w \in Workers |-> IdleWorker]
    /\ results = [a \in AssetIds |-> 0]
    /\ rea = [r \in Reanalyses |-> [pc |-> "idle", asset |-> 0, force |-> FALSE,
                                    res |-> "none"]]
    /\ statusResp = [asset |-> 0, source |-> "none", status |-> "none",
                    message |-> NULL, valid |-> FALSE]
    /\ counters = [updates |-> 0, redelivered |-> 0]
    /\ api = IdleApi
    /\ putResp = "none"
    /\ stat = [c \in StatusCalls |-> IdleStatusCall]
    /\ cm = NewCacheManager

\* the consume loops of the dispatcher processes, every analyzer outcome and
\* every point of failure of the store included
NextDispatch ==
    \/ \E w \in Workers, a \in AssetIds, rd \in BOOLEAN, ok \in BOOLEAN,
          mime \in PlainMimes : WorkerBegin(w, a, rd, ok, mime)
    \/ \E w \in Workers, run \in AnalyzerRuns, failAt \in 0..(NumProbes + 1) :
          WorkerAnalyze(w, run, failAt)
    \/ \E w \in Workers : WorkerComplete(w)
    \/ \E w \in Workers : WorkerFail(w)

SpecDispatch == InitDispatch /\ [][NextDispatch]_vars
SpecStatusCalls == InitDispatch /\ [][NextStatusCalls]_vars

\* The event loop of a dispatcher process resumes _process_asset whenever
\* the statement it awaits has ended, and the consumer receives a pending
\* message of the topic: each step of each process is weakly fair.
FairLoop ==
    \A w \in Workers :
        /\ WF_vars(\E a \in AssetIds, rd \in BOOLEAN, ok \in BOOLEAN, mime \in PlainMimes :
                      WorkerBegin(w, a, rd, ok, mime))
        /\ WF_vars(WorkerComplete(w))
        /\ WF_vars(WorkerFail(w))

\* every analyzer call returns
FairAnalyzers ==
    \A w \in Workers :
        WF_vars(\E run \in AnalyzerRuns, failAt \in 0..(NumProbes + 1) :
                   WorkerAnalyze(w, run, failAt))

\* the dispatcher with analyzers that return
SpecDispatchFair == SpecDispatch /\ FairLoop /\ FairAnalyzers

\* the dispatcher with analyzers of which nothing is known: a call may never
\* return
SpecDeadline == SpecDispatch /\ FairLoop

\* ------------------------------------- the dispatcher and any message
\* the consume loops when the topic carries messages of any producer: the
\* mime_type field is any string or is missing
NextMessages ==
    \/ \E w \in Workers, a \in AssetIds, rd \in BOOLEAN, ok \in BOOLEAN,
          mime \in MimeInputs : WorkerBegin(w, a, rd, ok, mime)
    \/ \E w \in Workers, run \in PlainRuns, failAt \in {0, 1} :
          WorkerAnalyze(w, run, failAt)
    \/ \E w \in Workers : WorkerComplete(w)
    \/ \E w \in Workers : WorkerFail(w)
    \/ \E w \in Workers : WorkerEscape(w)

SpecMessages == InitDispatch /\ [][NextMessages]_vars

\* ------------------------------------------ the pipeline without failures
\* Gateway, dispatcher and re-analysis when no collaborator fails: the blob
\* store, the broker, the download and the results store all succeed. The
\* except-handler of _process_asset is then never entered.
NextNoFailure ==
    \/ \E u \in Uploads, h \in Hashes : UploadCheck(u, h, NoPriority)
    \/ \E u \in Uploads : UploadStore(u, TRUE, TRUE)
    \/ \E u \in Uploads : UploadCache(u)
    \/ \E w \in Workers, a \in AssetIds, rd \in BOOLEAN, mime \in PlainMimes :
          WorkerBegin(w, a, rd, TRUE, mime)
    \/ \E w \in Workers, run \in PlainRuns : WorkerAnalyze(w, run, 0)
    \/ \E w \in Workers : WorkerComplete(w)
    \/ \E r \in Reanalyses, a \in AssetIds, f \in BOOLEAN : ReanalyzeRead(r, a, f)
    \/ \E r \in Reanalyses : ReanalyzeUpdate(r, TRUE, NoPriority)

\* A request handler that awaits a collaborator is resumed when the call
\* returns; the consumer receives a pending message; the analyzer returns.
\* When a request arrives is up to the client: UploadCheck and ReanalyzeRead
\* carry no fairness.
FairNoFailure ==
    /\ \A u \in Uploads : WF_vars(UploadStore(u, TRUE, TRUE)) /\ WF_vars(UploadCache(u))
    /\ \A r \in Reanalyses : WF_vars(ReanalyzeUpdate(r, TRUE, NoPriority))
    /\ \A w \in Workers :
          /\ WF_vars(\E a \in AssetIds, rd \in BOOLEAN, mime \in PlainMimes :
                        WorkerBegin(w, a, rd, TRUE, mime))
          /\ WF_vars(\E run \in PlainRuns : WorkerAnalyze(w, run, 0))
          /\ WF_vars(WorkerComplete(w))

SpecNoFailure == Init /\ [][NextNoFailure]_vars /\ FairNoFailure

\* ================================================================ claims
RowsOf(h) == {a \in AssetIds : Exists(a) /\ assets[a].hash = h}
Returned(u) == upl[u].pc = "done" /\ upl[u].res \in {"created", "duplicate"}

\* C1: an upload that begins after an upload of the same bytes has returned
\* an asset id returns that same id with duplicate=true and writes nothing:
\* exactly one asset row with this content hash exists, the returned one, its
\* blob exists, and no call that returned an id for these bytes wrote any
\* other blob.
C1_SequentialUploadIsDuplicate ==
    \A v \in Uploads : upl[v].seq =>
        /\ upl[v].pc = "done"
        /\ upl[v].res = "duplicate"
        /\ v \notin blobs /\ v \notin entities /\ ~Exists(v)
        /\ RowsOf(upl[v].hash) = {upl[v].ret}
        /\ upl[v].ret \in blobs
        /\ \A u \in Uploads : (Returned(u) /\ upl[u].hash = upl[v].hash)
              => /\ upl[u].ret = upl[v].ret
                 /\ u \in blobs => u = upl[v].ret

C1_Witness ==
    \E u, v \in Uploads : /\ u # v /\ upl[v].seq /\ upl[v].res = "duplicate"
                          /\ upl[u].res = "created" /\ upl[v].ret = u

\* C2: when N >= 2 uploads of the same bytes have all ended and no
\* collaborator (blob store, broker) failed, exactly one asset row has the
\* content hash and exactly N-1 of the calls returned duplicate=true.
C2_ConcurrentUploadsDeduplicate ==
    \A h \in Hashes :
        LET calls == {u \in Uploads : upl[u].hash = h}
        IN (/\ \A u \in Uploads : upl[u].pc = "done"
            /\ Cardinality(calls) >= 2
            /\ \A u \in calls : upl[u].res \notin {"storage_error", "queue_error"})
           => /\ Cardinality(RowsOf(h)) = 1
              /\ Cardinality({u \in calls : upl[u].res = "duplicate"})
                    = Cardinality(calls) - 1

\* C3: as long as no forced re-analysis has been requested, no two
\* dispatcher workers run an analyzer for the same asset at the same time.
C3_SingleFlight ==
    (\A r \in Reanalyses : ~rea[r].force) =>
        \A w1, w2 \in Workers :
            (w1 # w2 /\ wrk[w1].pc = "analyzing" /\ wrk[w2].pc = "analyzing")
               => wrk[w1].asset # wrk[w2].asset

\* C4: a work message received for an asset whose status is processing is
\* skipped: the worker invokes no analyzer, and neither the asset rows nor
\* the persisted results change.
C4_ProcessingMessageSkipped ==
    [][\A a \in AssetIds :
         (queue'[a] < queue[a] /\ Exists(a) /\ assets[a].status = "processing")
            => (wrk' = wrk /\ assets' = assets /\ results' = results)]_vars

LegalTransitions ==
    {<<"queued", "processing">>, <<"processing", "completed">>,
     <<"processing", "failed">>, <<"completed", "queued">>, <<"failed", "queued">>}

\* C5: every change of a stored status is one of the five legal transitions.
C5_OnlyLegalTransitions ==
    [][\A a \in AssetIds :
         (Exists(a) /\ assets'[a].status # assets[a].status)
            => <<assets[a].status, assets'[a].status>> \in LegalTransitions]_vars

\* C6: a stored status goes from processing to queued only by the write of
\* a re-analysis request made with force=true.
C6_ProcessingToQueuedOnlyForced ==
    [][\A a \in AssetIds :
         (Exists(a) /\ assets[a].status = "processing" /\ assets'[a].status = "queued")
            => \E r \in Reanalyses : /\ rea[r].pc = "update" /\ rea'[r].pc = "done"
                                     /\ rea[r].asset = a /\ rea[r].force]_vars

\* C7: a re-analysis request for an existing asset that reads status
\* processing with force=false ends at once with a conflict and changes
\* neither the asset rows nor the queue; every other request goes on to reset
\* the status of its asset (and of no other) to queued and to publish: the
\* queue gains exactly one message for the asset when the request returns
\* its success response, none when the broker rejects the publish, and the
\* request changes nothing after it has ended.
C7_ReanalysisContract ==
    [][\A r \in Reanalyses :
         LET a == rea'[r].asset
         IN /\ (rea[r].pc = "idle" /\ rea'[r].pc # "idle" /\ Exists(a)) =>
                  IF assets[a].status = "processing" /\ ~rea'[r].force
                  THEN /\ rea'[r].pc = "done" /\ rea'[r].res = "conflict"
                       /\ assets' = assets /\ queue' = queue
                  ELSE rea'[r].pc = "update"
            /\ (rea[r].pc = "update" /\ rea'[r].pc # "update") =>
                  /\ rea'[r].pc = "done" /\ rea'[r].res \in {"ok", "queue_error"}
                  /\ assets'[a].status = "queued"
                  /\ \A b \in AssetIds \ {a} : assets'[b] = assets[b]
                  /\ queue' = [queue EXCEPT ![a] = @ + (IF rea'[r].res = "ok" THEN 1 ELSE 0)]
            /\ rea[r].pc = "done" => rea'[r] = rea[r]]_vars

C7_Witness ==
    \E r \in Reanalyses : /\ rea[r].pc = "done" /\ rea[r].res = "ok" /\ rea[r].force
                          /\ assets[rea[r].asset].status = "queued"
                          /\ queue[rea[r].asset] > 0
                          /\ \E w \in Workers : wrk[w].asset = rea[r].asset

\* C8: the cache never holds a status different from the stored one (every
\* transition is a single UPDATE, so none is under way in any state).
C8_CacheAgreesWithStore ==
    \A a \in AssetIds :
        (Exists(a) /\ cache[a] # NoEntry) => cache[a] = assets[a].status

\* C9: a get_status that misses the cache and reads the row from the store
\* leaves the status it read in the cache.
C9_ReadThroughFillsCache ==
    [][\A a \in AssetIds :
         (statusResp' # statusResp /\ statusResp'.asset = a
            /\ statusResp'.source = "store" /\ Exists(a))
            => cache'[a] = assets[a].status]_vars

\* C10: every asset whose status is failed has a non-empty last_error.
C10_FailedHasLastError ==
    \A a \in AssetIds :
        (Exists(a) /\ assets[a].status = "failed") => assets[a].error \notin {NULL, ""}

\* C11: when the analyzer called for an asset could not produce any usable
\* output (validate_file rejected the file, or the analysis failed inside),
\* the handling of the message ends with the asset in status failed.
C11_AnalyzerFailureSurfaced ==
    [][\A w \in Workers :
         (/\ wrk[w].out.metadata.status = "failed"
          /\ wrk[w].pc \in {"complete", "fail"} /\ wrk'[w].pc = "idle"
          /\ Exists(wrk[w].asset))
            => assets'[wrk[w].asset].status = "failed"]_vars

AllHandled == (\A a \in AssetIds : queue[a] = 0) /\ (\A w \in Workers : wrk[w].pc = "idle")

\* C12: a failure while one message is handled (the analyzer fails, the
\* download fails, the store fails) does not end the consume loop: every
\* dispatcher process comes back to receive the next message again and
\* again, and every pending message, of whatever asset, is consumed.
C12_ExceptionsContained ==
    /\ \A w \in Workers : []<>(wrk[w].pc = "idle")
    /\ \A a \in AssetIds : [](queue[a] > 0 => <>(queue[a] = 0))

C12_Witness ==
    \E a, b \in AssetIds :
        /\ a # b /\ AllHandled
        /\ assets[a].status = "failed" /\ assets[a].error \in {DownloadError, StoreError}
        /\ assets[b].status = "completed" /\ results[b] > 0

\* C13: whatever the analyzer does, a dispatcher process that awaits an
\* analyzer call leaves that await (the deadline ends the call, the asset
\* is marked failed and the process is ready for the next message), so every
\* pending message is consumed even when an analyzer never returns.
C13_AnalyzerDeadline ==
    /\ \A w \in Workers : [](wrk[w].pc = "analyzing" => <>(wrk[w].pc = "idle"))
    /\ \A a \in AssetIds : [](queue[a] > 0 => <>(queue[a] = 0))

Raised(run) == {p \in Probes : run.probes[p] = "raise"}
Succeeded(run) == {p \in Probes : run.probes[p] = "ok"}

ErrorsOf(metadata) == IF "errors" \in DOMAIN metadata THEN metadata.errors ELSE <<>>

\* C15: the result of an analyzer run lists in metadata.errors one entry
\* per sub-probe that raised.
C15_ProbeErrorsRecorded ==
    \A w \in Workers :
        wrk[w].out.metadata.status = "success"
           => Len(ErrorsOf(wrk[w].out.metadata)) = Cardinality(Raised(wrk[w].run))

\* C16: the rows of an asset change only by the whole batch of one
\* _store_analysis_results call at once, and a call in which an insert (or
\* the commit) fails leaves no row of its batch behind.
C16_StoreAllOrNothing ==
    [][/\ \A a \in AssetIds :
            results'[a] # results[a] =>
               \E w \in Workers :
                   /\ wrk[w].asset = a /\ wrk[w].pc = "analyzing"
                   /\ wrk'[w].pc = "complete"
                   /\ results'[a] = results[a] + Cardinality(wrk'[w].out.parts)
       /\ \A w \in Workers :
            (wrk[w].pc = "analyzing" /\ wrk'[w].pc = "fail") => results' = results]_vars

C16_Witness ==
    \E w \in Workers :
        /\ wrk[w].pc = "fail" /\ wrk[w].err = StoreError
        /\ Cardinality(wrk[w].out.parts) >= 2
        /\ results[wrk[w].asset] = 0

\* C17: once the analyzer has returned a result, the message in hand goes
\* on to completed exactly when the whole result was persisted, and the
\* asset is then set to completed; when persisting fails nothing of the
\* result is stored and the asset is set to failed with the error of the
\* store as its error detail. No status becomes completed in any other way.
C17_CompletedIffPersisted ==
    [][/\ \A w \in Workers :
            LET a == wrk[w].asset
            IN /\ (wrk[w].pc = "analyzing" /\ wrk'[w].pc # "analyzing") =>
                     IF results'[a] = results[a] + Cardinality(wrk'[w].out.parts)
                        /\ wrk'[w].err = NULL
                     THEN wrk'[w].pc = "complete"
                     ELSE /\ wrk'[w].pc = "fail" /\ wrk'[w].err = StoreError
                          /\ results' = results
               /\ (wrk[w].pc = "complete" /\ wrk'[w].pc # "complete") =>
                     /\ assets'[a].status = "completed" /\ assets'[a].error = NULL
                     /\ wrk'[w].pc = "idle"
               /\ (wrk[w].pc = "fail" /\ wrk'[w].pc # "fail") =>
                     /\ assets'[a].status = "failed" /\ assets'[a].error = wrk[w].err
                     /\ wrk'[w].pc = "idle"
       /\ \A a \in AssetIds :
            (assets'[a].status = "completed" /\ assets[a].status # "completed") =>
               \E w \in Workers : wrk[w].asset = a /\ wrk[w].pc = "complete"]_vars

C17_Witness ==
    \E a, b \in AssetIds :
        /\ assets[a].status = "failed" /\ assets[a].error = StoreError /\ results[a] = 0
        /\ assets[b].status = "completed" /\ results[b] > 0

\* C18: with one work message published per asset, every handling of a
\* message after the one that persisted the asset's rows is a redelivery of
\* the same message, and it leaves the persisted rows of the asset as they
\* are.
C18_RedeliveryIdempotent ==
    [][\A a \in AssetIds : results[a] > 0 => results'[a] = results[a]]_vars

\* C19: an upload whose blob write failed ends with the storage error and
\* has written no blob; and for an id whose blob is not in the content
\* store there is no entity or asset row, no work message (pending or in
\* the hands of a dispatcher process) and no cache entry.
C19_BlobFailureWritesNothing ==
    \A u \in Uploads :
        /\ upl[u].res = "storage_error" => (upl[u].pc = "done" /\ u \notin blobs)
        /\ u \notin blobs =>
              /\ ~Exists(u) /\ u \notin entities
              /\ queue[u] = 0 /\ (\A w \in Workers : wrk[w].asset # u)
              /\ cache[u] = NoEntry

C19_Witness ==
    \E u, v \in Uploads :
        /\ upl[u].res = "storage_error" /\ upl[u].pc = "done"
        /\ upl[v].res = "created" /\ upl[v].hash = upl[u].hash

\* C20: an upload whose duplicate check finds an asset row with its content
\* hash ends at once as a duplicate and changes neither the content store,
\* nor the entity and asset rows, nor the topic, nor the cache; and one
\* upload call publishes at most one work message, for its own asset id, in
\* the step that stores the asset, and nothing after it has ended.
C20_DuplicateUploadWritesNothing ==
    [][\A u \in Uploads :
         /\ (upl[u].pc = "idle" /\ upl'[u].pc # "idle" /\ RowsOf(upl'[u].hash) # {}) =>
               /\ upl'[u].pc = "done" /\ upl'[u].res = "duplicate"
               /\ upl'[u].ret \in RowsOf(upl'[u].hash)
               /\ UNCHANGED <<blobs, entities, assets, queue, cache>>
         /\ upl'[u] # upl[u] =>
               /\ \A a \in AssetIds \ {u} : queue'[a] = queue[a]
               /\ queue'[u] \in {queue[u], queue[u] + 1}
               /\ queue'[u] # queue[u] => (upl[u].pc = "store" /\ upl'[u].pc # "store")
         /\ upl[u].pc \in {"cache", "done"} => upl'[u].pc # "store"]_vars

C20_Witness ==
    \E v \in Uploads :
        /\ upl[v].pc = "done" /\ upl[v].res = "duplicate"
        /\ ~Exists(v) /\ v \notin blobs /\ v \notin entities
        /\ queue[v] = 0 /\ queue[upl[v].ret] = 1

NothingCreatedFor(u) ==
    /\ u \notin blobs /\ u \notin entities /\ ~Exists(u)
    /\ cache[u] = NoEntry /\ queue[u] = 0

\* C21: an upload request whose priority is not an integer in 1..10 ends
\* with a validation error, and no blob, entity row, asset row, cache entry
\* or work message exists for it.
C21_InvalidPriorityRejected ==
    \A u \in Uploads :
        (upl[u].pc # "idle" /\ ~(upl[u].prio.int /\ upl[u].prio.val \in MinPriority..MaxPriority))
           => (upl[u].pc = "done" /\ upl[u].res = "validation_error" /\ NothingCreatedFor(u))

\* C22: a get_status answered for an asset whose row is failed is a valid
\* response whose status is failed and which carries the error message
\* recorded in the row, whether it comes from the cache or from the store.
C22_FailedStatusCarriesError ==
    [][\A a \in AssetIds :
         (statusResp' # statusResp /\ statusResp'.asset = a
            /\ Exists(a) /\ assets[a].status = "failed")
            => (/\ statusResp'.valid
                /\ statusResp'.status = "failed"
                /\ statusResp'.message = assets[a].error)]_vars

\* C23: an upload whose publish failed after the rows were written has
\* called the broker at least twice (the publish was retried), and it
\* leaves the asset in place: the asset row, the entity row and the blob
\* still exist.
C23_PublishRetriedNotRolledBack ==
    \A u \in Uploads :
        upl[u].res = "queue_error"
           => /\ upl[u].sends >= 2
              /\ Exists(u) /\ u \in blobs /\ u \in entities

\* the part of C23 about the end state alone: nothing is rolled back
C23_NotRolledBack ==
    \A u \in Uploads :
        upl[u].res = "queue_error" => (Exists(u) /\ u \in blobs /\ u \in entities)

\* C24: when nothing fails and every process is scheduled fairly, an asset
\* whose row is queued is eventually processing, and an asset that is
\* processing is eventually completed: every ingested asset reaches
\* completed through queued, processing, completed.
C24_EventuallyCompleted ==
    \A a \in AssetIds :
        /\ (Exists(a) /\ assets[a].status = "queued")
              ~> (Exists(a) /\ assets[a].status = "processing")
        /\ (Exists(a) /\ assets[a].status = "processing")
              ~> (Exists(a) /\ assets[a].status = "completed")

C24_Witness ==
    \E u \in Uploads :
        /\ upl[u].res = "created" /\ Exists(u)
        /\ assets[u].status = "completed" /\ results[u] > 0
        /\ queue[u] = 0 /\ \A w \in Workers : wrk[w].pc = "idle"

\* C25: when a dispatcher process has finished handling a message of an
\* existing asset (it is back at the head of its consume loop), the status
\* of the asset is completed or failed, whatever the message carried and
\* whatever failed.
C25_HandledNeverLeftProcessing ==
    [][\A w \in Workers :
         (wrk[w].pc # "idle" /\ wrk'[w].pc = "idle" /\ Exists(wrk[w].asset))
            => assets'[wrk[w].asset].status \in {"completed", "failed"}]_vars

\* C26: a dispatcher process that is not handling a message has left no
\* temporary file behind: whatever the outcome of the handling (completed,
\* failed store, failed download, asset not found), the file that
\* _download_file wrote has been removed.
C26_TempFileRemoved ==
    \A w \in Workers : wrk[w].pc \in {"idle", "fail"} => ~wrk[w].tmp

C26_Witness ==
    /\ \A w \in Workers : wrk[w].pc = "idle" /\ ~wrk[w].tmp
    /\ \E a, b \in AssetIds :
          /\ assets[a].status = "completed" /\ results[a] > 0
          /\ assets[b].status = "failed" /\ assets[b].error = StoreError

\* C27: whenever a work message of an asset is on the topic or is being
\* handled by a dispatcher process, the asset row, the entity row and the
\* blob of the asset exist.
C27_MessageImpliesRowAndBlob ==
    \A a \in AssetIds :
        (queue[a] > 0 \/ \E w \in Workers : wrk[w].pc # "idle" /\ wrk[w].asset = a)
           => (Exists(a) /\ a \in entities /\ a \in blobs)

C27_Witness ==
    \E a \in AssetIds :
        /\ queue[a] > 0
        /\ \E w \in Workers : wrk[w].pc = "analyzing" /\ wrk[w].asset = a
        /\ Exists(a) /\ a \in blobs

\* the analyzer that the prefix of a media type selects
ExpectedAnalyzer(chars) ==
    IF Len(chars) >= 6 /\ SubSeq(chars, 1, 6) = VideoPrefix THEN "video"
    ELSE IF Len(chars) >= 6 /\ SubSeq(chars, 1, 6) = ImagePrefix THEN "image"
    ELSE IF Len(chars) >= 6 /\ SubSeq(chars, 1, 6) = AudioPrefix THEN "audio"
    ELSE "document"

\* C28: for a message whose mime_type is a string, the dispatcher resolves
\* the analyzer by the prefix of the media type: video/ gives video, image/
\* gives image, audio/ gives audio, every other string gives document; the
\* resolved analyzer is always one of the registered analyzers, so the
\* resolution never fails.
C28_AnalyzerByPrefix ==
    /\ \A m \in MimeInputs :
          m.str => /\ ~get_analyzer_type(m).raised
                   /\ get_analyzer_type(m).type = ExpectedAnalyzer(m.chars)
                   /\ get_analyzer_type(m).type \in Analyzers
    /\ \A w \in Workers :
          (wrk[w].pc \notin {"idle", "raised"})
             => /\ wrk[w].mime.str
                /\ wrk[w].type = ExpectedAnalyzer(wrk[w].mime.chars)
                /\ wrk[w].err # NoAnalyzerError

C28_Witness ==
    \E w, v \in Workers :
        /\ wrk[w].pc = "analyzing" /\ wrk[w].type = "video"
        /\ wrk[v].pc = "analyzing" /\ wrk[v].type = "document"
        /\ wrk[v].mime = MimeStr(<<"V", "I", "D", "E", "O", "/", "x">>)

\* C29: the rows stored for an asset are never removed or replaced, and a
\* pass whose results are stored adds every row of its result to the rows
\* of the earlier passes.
C29_PassesAccumulate ==
    [][/\ \A a \in AssetIds : results'[a] >= results[a]
       /\ \A w \in Workers :
             (wrk[w].pc = "analyzing" /\ wrk'[w].pc = "complete")
                => results'[wrk[w].asset]
                     = results[wrk[w].asset] + Cardinality(wrk'[w].out.parts)]_vars

C29_Witness ==
    \E a \in AssetIds :
        /\ Exists(a) /\ assets[a].status = "completed"
        /\ \E r \in Reanalyses : rea[r].res = "ok" /\ rea[r].asset = a
        /\ results[a] >= 2 * NumProbes

\* C30: when the polling processor ends the handling of an asset, the
\* asset is completed if the results of the asset were stored in full, and
\* failed if they were not.
C30_ApiCompletedIffPersisted ==
    [][(api.pc = "complete" /\ api'.pc = "idle" /\ Exists(api.asset))
          => assets'[api.asset].status = (IF api.full THEN "completed" ELSE "failed")]_vars

\* C31: the priority of every stored asset is an integer in 1..10, in
\* every reachable state, also after a re-analysis request.
C31_StoredPriorityInRange ==
    \A a \in AssetIds :
        Exists(a) => assets[a].priority \in MinPriority..MaxPriority

\* the part of C31 about rows that no re-analysis has touched
C31_UploadedPriorityInRange ==
    \A a \in AssetIds :
        (Exists(a) /\ \A r \in Reanalyses : ~(rea[r].res \in {"ok", "queue_error"} /\ rea[r].asset = a))
           => assets[a].priority \in MinPriority..MaxPriority

\* C32: once an upload has returned or failed, the entities row of its id
\* exists if and only if the assets row of its id exists.
C32_NoOrphanEntity ==
    \A u \in Uploads :
        upl[u].pc = "done" => (u \in entities <=> Exists(u))

\* C33: when an upload has returned as a duplicate, nothing that was
\* created for it is left: no entity row, no stored file and no thumbnail
\* files of its id.
C33_DuplicateLeavesNothing ==
    \A u \in Uploads :
        (upl[u].pc = "done" /\ upl[u].res = "duplicate")
           => (u \notin entities /\ u \notin blobs /\ ~upl[u].thumbs)

\* the part of C33 about the entity row and the stored file
C33_DuplicateLeavesNoRowOrFile ==
    \A u \in Uploads :
        (upl[u].pc = "done" /\ upl[u].res = "duplicate")
           => (u \notin entities /\ u \notin blobs)

\* C34: when update_asset_status of main.py answers with an error, the
\* stored status and the cached status of every asset are what they were
\* before the request.
C34_ErrorLeavesStatusUnchanged ==
    [][(counters'.updates # counters.updates /\ putResp' # "200")
          => (assets' = assets /\ cache' = cache)]_vars

\* the calls of update_asset_status of main_simple.py for asset a
CallsFor(a) == {c \in StatusCalls : stat[c].pc # "idle" /\ stat[c].asset = a}

\* C35: when every update_asset_status call made for an asset has returned,
\* the cached status of the asset equals its stored status, whatever the
\* interleaving of the calls.
C35_ConcurrentUpdatesAgree ==
    \A a \in AssetIds :
        (Exists(a) /\ CallsFor(a) # {} /\ \A c \in CallsFor(a) : stat[c].pc = "done")
           => cache[a] = assets[a].status

\* the same for calls that do not overlap: one call for the asset
C35_SingleUpdateAgrees ==
    \A a \in AssetIds :
        (Exists(a) /\ Cardinality(CallsFor(a)) = 1 /\ \A c \in CallsFor(a) : stat[c].pc = "done")
           => cache[a] = assets[a].status

\* C36: a get that returns a value for a key was called no later than the
\* moment at which the ttl of the most recent set of that key runs out.
C36_NoValueAfterTtl ==
    cm.result.value # NoValue => cm.result.at <= cm.set_expires[cm.result.key]

\* C37: memory_cache never holds more than max_size entries.
C37_MemoryCacheBounded == Len(cm.memory_cache) <= MaxSize

C37_Witness ==
    /\ Len(cm.memory_cache) = MaxSize
    /\ \E k \in Keys : Position(cm.memory_cache, k) = 0 /\ cm.set_expires[k] # 0
    /\ cm.result.value = "value"

====
